---- MODULE Spec2Model ----
(***************************************************************************)
(* Model of the user-account service of src/app_secure.py: the validators, *)
(* the bcrypt credential hasher, the sqlite users table and the three      *)
(* request handlers (create_user, login, get_users) run by concurrent      *)
(* request threads, each with its own database connection.                 *)
(*                                                                         *)
(* A Python str is a sequence of one-character strings; a character that   *)
(* is not ASCII is written as its code point ("U+00C9").                   *)
(***************************************************************************)
EXTENDS Integers, Sequences, FiniteSets, TLC

VARIABLES
    users,      \* committed rows of table users, in rowid order
    seq,        \* sqlite_sequence value of AUTOINCREMENT for table users
    writer,     \* connection holding the database write lock, 0 if none
    pending,    \* the uncommitted row of the writer's transaction
    clock,      \* datetime.utcnow(), microseconds after 2026-11-01T10:00:00
    nsalt,      \* number of salts bcrypt.gensalt() has drawn
    strict,     \* the installed bcrypt rejects passwords over 72 bytes
    pc,         \* position of each request thread
    req,        \* the request each thread is serving (or served last)
    loc,        \* the handler's local variables
    resp,       \* the response each thread returned last
    nreq,       \* number of requests started
    registered, \* history: registered[i] is the registration of users[i]
    arg,        \* argument of a direct validator call
    ret         \* result of a direct validator call

vars == <<users, seq, writer, pending, clock, nsalt, strict, pc, req, loc,
          resp, nreq, registered, arg, ret>>

-----------------------------------------------------------------------------
(* Bounds of the model *)

MaxRequests == 3        \* requests started in one behaviour
MaxPrefix == 2          \* free characters at the head of a sampled string

\* two request threads, each with a connection of its own
Procs == {1, 2}

-----------------------------------------------------------------------------
(* Characters and strings *)

Lower == {"a","b","c","d","e","f","g","h","i","j","k","l","m",
          "n","o","p","q","r","s","t","u","v","w","x","y","z"}
Upper == {"A","B","C","D","E","F","G","H","I","J","K","L","M",
          "N","O","P","Q","R","S","T","U","V","W","X","Y","Z"}
Digit == {"0","1","2","3","4","5","6","7","8","9"}

\* LATIN CAPITAL LETTER E WITH ACUTE: one character, two bytes in UTF-8
EAcute == "U+00C9"

\* set("abcdefghijklmnopqrstuvwxyzABCDEFGHIJKLMNOPQRSTUVWXYZ0123456789_-.")
allowed_chars ==
    {"a","b","c","d","e","f","g","h","i","j","k","l","m","n","o","p","q","r",
     "s","t","u","v","w","x","y","z","A","B","C","D","E","F","G","H","I","J",
     "K","L","M","N","O","P","Q","R","S","T","U","V","W","X","Y","Z","0","1",
     "2","3","4","5","6","7","8","9","_","-","."}

\* str.isupper / str.islower / str.isdigit of one character
isupper(c) == c \in Upper \cup {EAcute}
islower(c) == c \in Lower
isdigit(c) == c \in Digit

\* characters str.strip() removes
Whitespace == {" ", "\t", "\n"}

Rep(c, n) == [i \in 1..n |-> c]

Chars(s) == {s[i] : i \in 1..Len(s)}

\* index of the first character from i on, and of the last one up to i, that
\* is not whitespace (Len(s) + 1 and 0 if there is none)
RECURSIVE FirstKept(_, _)
FirstKept(s, i) ==
    IF i > Len(s) \/ s[i] \notin Whitespace THEN i ELSE FirstKept(s, i + 1)

RECURSIVE LastKept(_, _)
LastKept(s, i) ==
    IF i < 1 \/ s[i] \notin Whitespace THEN i ELSE LastKept(s, i - 1)

\* str.strip(): drop leading and trailing whitespace
strip(s) == SubSeq(s, FirstKept(s, 1), LastKept(s, Len(s)))

-----------------------------------------------------------------------------
(* Validator *)

\* the length test off by one at the top
validate_username_50(username) ==
    IF Len(username) < 3
    THEN <<FALSE, "Username must be at least 3 characters long">>
    ELSE IF Len(username) >= 50
    THEN <<FALSE, "Username must be less than 50 characters">>
    ELSE IF ~(Chars(username) \subseteq allowed_chars)
    THEN <<FALSE, "Username contains invalid characters">>
    ELSE <<TRUE, "Valid username">>

validate_username(username) ==
    IF Len(username) < 3
    THEN <<FALSE, "Username must be at least 3 characters long">>
    ELSE IF Len(username) > 50
    THEN <<FALSE, "Username must be less than 50 characters">>
    ELSE IF ~(Chars(username) \subseteq allowed_chars)
    THEN <<FALSE, "Username contains invalid characters">>
    ELSE <<TRUE, "Valid username">>

\* the complexity test asking for any one class instead of all three
validate_password_any(password) ==
    IF Len(password) < 8
    THEN <<FALSE, "Password must be at least 8 characters long">>
    ELSE IF Len(password) > 128
    THEN <<FALSE, "Password too long">>
    ELSE LET has_upper == \E i \in 1..Len(password) : isupper(password[i])
             has_lower == \E i \in 1..Len(password) : islower(password[i])
             has_digit == \E i \in 1..Len(password) : isdigit(password[i])
         IN  IF ~(has_upper \/ has_lower \/ has_digit)
             THEN <<FALSE, "Password must contain uppercase, lowercase, and numeric characters">>
             ELSE <<TRUE, "Valid password">>

validate_password(password) ==
    IF Len(password) < 8
    THEN <<FALSE, "Password must be at least 8 characters long">>
    ELSE IF Len(password) > 128
    THEN <<FALSE, "Password too long">>
    ELSE LET has_upper == \E i \in 1..Len(password) : isupper(password[i])
             has_lower == \E i \in 1..Len(password) : islower(password[i])
             has_digit == \E i \in 1..Len(password) : isdigit(password[i])
         IN  IF ~(has_upper /\ has_lower /\ has_digit)
             THEN <<FALSE, "Password must contain uppercase, lowercase, and numeric characters">>
             ELSE <<TRUE, "Valid password">>

-----------------------------------------------------------------------------
(* JSON values, as request.get_json() returns them *)

Str(s)   == [tag |-> "str",  s |-> s,    n |-> 0]
Num(n)   == [tag |-> "num",  s |-> <<>>, n |-> n]
\* the key is not in the object (the string is not in the array)
Absent   == [tag |-> "absent", s |-> <<>>, n |-> 0]
\* an array holds the string: `field in data` is true, data[field] raises
Elem     == [tag |-> "elem", s |-> <<>>, n |-> 0]

\* the body: kind "null" (None), "object" (a dict) or "array" (a list)
Object(u, p) == [kind |-> "object", username |-> u, password |-> p]
Array(u, p)  == [kind |-> "array",  username |-> u, password |-> p]
NoData       == [kind |-> "null",   username |-> Absent, password |-> Absent]

\* Python truth value: `not v`
Falsy(v) ==
    \/ v.tag = "str" /\ v.s = <<>>
    \/ v.tag = "num" /\ v.n = 0

\* `not data`: None, {}, []
FalsyData(data) ==
    \/ data.kind = "null"
    \/ data.username.tag = "absent" /\ data.password.tag = "absent"

Raise(exc, msg) == [exc |-> exc, msg |-> msg, username |-> <<>>, password |-> <<>>]

required_fields == <<"username", "password">>

\* the checks of one pass of the loop of validate_input; exc "none" if they pass
CheckField(data, field) ==
    IF data[field].tag = "absent"
    THEN Raise("BadRequest", <<"Missing required field", field>>)
    ELSE IF data.kind = "array"
    THEN Raise("TypeError", <<"list indices must be integers or slices, not str">>)
    ELSE IF Falsy(data[field])
    THEN Raise("BadRequest", <<"Missing required field", field>>)
    ELSE IF data[field].tag # "str"
    THEN Raise("BadRequest", <<"Invalid data type for", field>>)
    ELSE IF Len(strip(data[field].s)) = 0
    THEN Raise("BadRequest", <<"Empty value for", field>>)
    ELSE IF Len(data[field].s) > 255
    THEN Raise("BadRequest", <<"Value too long for", field>>)
    ELSE Raise("none", <<>>)

\* validate_input(data, ["username", "password"]): the exception it raises,
\* or exc "none" and the stripped fields
validate_input(data) ==
    IF FalsyData(data)
    THEN Raise("BadRequest", <<"No data provided">>)
    ELSE LET bad == {i \in 1..Len(required_fields) :
                        CheckField(data, required_fields[i]).exc # "none"}
         IN  IF bad # {}
             THEN CheckField(data, required_fields[
                      CHOOSE i \in bad : \A j \in bad : i <= j])
             ELSE [exc |-> "none", msg |-> <<>>,
                   username |-> strip(data.username.s),
                   password |-> strip(data.password.s)]

-----------------------------------------------------------------------------
(* Credential hasher: bcrypt *)

\* str.encode("utf-8"): one byte per ASCII character, two for U+00C9
Utf8Char(c) == IF c = EAcute THEN <<"0xC3", "0x89">> ELSE <<c>>

RECURSIVE EncodeFrom(_, _)
EncodeFrom(s, i) ==
    IF i > Len(s) THEN <<>> ELSE Utf8Char(s[i]) \o EncodeFrom(s, i + 1)

\* an ASCII string encodes to itself
encode(s) == IF EAcute \notin Chars(s) THEN s ELSE EncodeFrom(s, 1)

\* bcrypt reads at most 72 bytes of the password
BcryptMaxBytes == 72

BcryptKey(bytes) ==
    IF Len(bytes) > BcryptMaxBytes THEN SubSeq(bytes, 1, BcryptMaxBytes) ELSE bytes

\* bcrypt.hashpw raises ValueError on more than 72 bytes when the installed
\* bcrypt is 5.0 or later, and hashes the first 72 bytes before that
BcryptRaises(bytes, isStrict) == isStrict /\ Len(bytes) > BcryptMaxBytes

\* bcrypt.hashpw(bytes, salt): the salt is embedded in the hash
hashpw(bytes, salt) == [salt |-> salt, digest |-> BcryptKey(bytes)]

\* hash_password(password), given the salt bcrypt.gensalt() drew
hash_password(password, salt) == hashpw(encode(password), salt)

\* verify_password(password, password_hash): bcrypt.checkpw rehashes the
\* password with the salt of the hash and compares
verify_password(password, password_hash) ==
    hashpw(encode(password), password_hash.salt) = password_hash

\* bcrypt.checkpw runs hashpw(bytes, hashed): it raises ValueError
\* ("Invalid salt") when no salt can be read from the front of the hash
\* (written here as salt 0; gensalt() draws 1, 2, ...), and where hashpw
\* raises on the length of the password
verify_password_raises(password, password_hash, isStrict) ==
    \/ BcryptRaises(encode(password), isStrict)
    \/ password_hash.salt = 0

-----------------------------------------------------------------------------
(* created_at: datetime.utcnow().isoformat(), compared as TEXT by sqlite *)

DigitOf(n) == CASE n = 0 -> "0" [] n = 1 -> "1" [] n = 2 -> "2" [] n = 3 -> "3"
                [] n = 4 -> "4" [] n = 5 -> "5" [] n = 6 -> "6" [] n = 7 -> "7"
                [] n = 8 -> "8" [] n = 9 -> "9"

\* n in decimal, zero-padded to w digits
RECURSIVE Pad(_, _)
Pad(n, w) == IF w = 0 THEN <<>> ELSE Pad(n \div 10, w - 1) \o <<DigitOf(n % 10)>>

\* isoformat() of the instant t microseconds after 2026-11-01T10:00:00;
\* the fraction is left out when the microsecond is 0
isoformat(t) ==
    LET us == t % 1000000
        s  == (t \div 1000000) % 60
        m  == (t \div 60000000) % 60
    IN  <<"2","0","2","6","-","1","1","-","0","1","T","1","0",":">>
        \o Pad(m, 2) \o <<":">> \o Pad(s, 2)
        \o (IF us = 0 THEN <<>> ELSE <<".">> \o Pad(us, 6))

\* byte value of the characters of a timestamp
Ord(c) == CASE c = "-" -> 45 [] c = "." -> 46 [] c = ":" -> 58 [] c = "T" -> 84
            [] c = "0" -> 48 [] c = "1" -> 49 [] c = "2" -> 50 [] c = "3" -> 51
            [] c = "4" -> 52 [] c = "5" -> 53 [] c = "6" -> 54 [] c = "7" -> 55
            [] c = "8" -> 56 [] c = "9" -> 57

\* a < b in sqlite's BINARY collation: memcmp, then the shorter first
TextLess(a, b) ==
    \/ \E i \in 1..Len(a) :
         /\ i <= Len(b)
         /\ \A j \in 1..(i - 1) : a[j] = b[j]
         /\ Ord(a[i]) < Ord(b[i])
    \/ Len(a) < Len(b) /\ \A j \in 1..Len(a) : a[j] = b[j]

-----------------------------------------------------------------------------
(* The users table (init_db) *)

Row(id, username, password_hash, created_at) ==
    [id |-> id, username |-> username, password_hash |-> password_hash,
     created_at |-> created_at]

NoHash == [salt |-> 0, digest |-> <<>>]
NoRow == Row(0, <<>>, NoHash, <<>>)

\* a SELECT that finds no row
SelectNothing(username) == NoRow

\* SELECT ... FROM users WHERE username = ?  (fetchone: the row or None)
SelectByUsername(username) ==
    LET hit == {i \in 1..Len(users) : users[i].username = username}
    IN  IF hit = {} THEN NoRow ELSE users[CHOOSE i \in hit : TRUE]

\* a username column without the UNIQUE constraint
NotUnique(username) == TRUE

\* username TEXT UNIQUE NOT NULL: may a row with this username be inserted
UniqueOk(username) == \A i \in 1..Len(users) : users[i].username # username

\* id INTEGER PRIMARY KEY AUTOINCREMENT: the rowid of the next insert
NextId == seq + 1

\* ORDER BY created_at ASC
OrderedAsc(rows) ==
    \A i, j \in 1..Len(rows) :
        i < j => ~TextLess(rows[j].created_at, rows[i].created_at)

\* the orders ORDER BY created_at DESC may return the rows in: every
\* arrangement with no row before one of a greater created_at
OrderedDesc(rows) ==
    \A i, j \in 1..Len(rows) :
        i < j => ~TextLess(rows[i].created_at, rows[j].created_at)

Listings ==
    {[i \in 1..Len(users) |-> users[f[i]]] :
        f \in {g \in [1..Len(users) -> 1..Len(users)] :
                  \A a, b \in 1..Len(users) : a # b => g[a] # g[b]}}

SelectAllOrdered == {rows \in Listings : OrderedDesc(rows)}

\* the record get_users builds of a row
UserView(row) ==
    [id |-> row.id, username |-> row.username, created_at |-> row.created_at]

-----------------------------------------------------------------------------
(* Requests and responses *)

\* the result of a validator called on its own
NoResult == [fn |-> "", valid |-> FALSE, reason |-> ""]

Request(op, data) == [op |-> op, data |-> data]
NoRequest == Request("none", NoData)

Response(status, error, message, user_id, username, listing) ==
    [status |-> status, error |-> error, message |-> message,
     user_id |-> user_id, username |-> username, users |-> listing]
NoResponse == Response(0, <<>>, "", 0, <<>>, <<>>)

ErrorResponse(status, error) == Response(status, error, "", 0, <<>>, <<>>)

\* except BadRequest as e: {"error": str(e)}, 400
BadRequestResponse(msg) == ErrorResponse(400, <<"400 Bad Request">> \o msg)
\* except Exception: {"error": "Internal server error"}, 500
InternalErrorResponse == ErrorResponse(500, <<"Internal server error">>)

\* the local variables of a handler; start and queries are history: the
\* number of rows committed when the request began, and the number of SQL
\* statements the request has executed
Locals(username, password, password_hash, created_at, user_id, start, queries) ==
    [username |-> username, password |-> password,
     password_hash |-> password_hash, created_at |-> created_at,
     user_id |-> user_id, start |-> start, queries |-> queries]

NoLocals(start, queries) == Locals(<<>>, <<>>, NoHash, <<>>, 0, start, queries)

Idle(p) == pc[p] \in {"idle", "done"}

Finish(p, r) ==
    /\ pc' = [pc EXCEPT ![p] = "done"]
    /\ resp' = [resp EXCEPT ![p] = r]

-----------------------------------------------------------------------------
(* create_user: POST /users *)

\* the password validated before the username
create_user_checks_swapped(data, isStrict) ==
    LET v == validate_input(data)
    IN  IF v.exc = "BadRequest" THEN BadRequestResponse(v.msg)
        ELSE IF v.exc # "none" THEN InternalErrorResponse
        ELSE IF ~validate_password(v.password)[1]
        THEN ErrorResponse(400, <<validate_password(v.password)[2]>>)
        ELSE IF ~validate_username(v.username)[1]
        THEN ErrorResponse(400, <<validate_username(v.username)[2]>>)
        ELSE IF BcryptRaises(encode(v.password), isStrict)
        THEN InternalErrorResponse
        ELSE NoResponse

\* what create_user returns before it opens a connection, NoResponse if it
\* gets as far as the database
create_user_checks(data, isStrict) ==
    LET v == validate_input(data)
    IN  IF v.exc = "BadRequest" THEN BadRequestResponse(v.msg)
        ELSE IF v.exc # "none" THEN InternalErrorResponse
        ELSE IF ~validate_username(v.username)[1]
        THEN ErrorResponse(400, <<validate_username(v.username)[2]>>)
        ELSE IF ~validate_password(v.password)[1]
        THEN ErrorResponse(400, <<validate_password(v.password)[2]>>)
        ELSE IF BcryptRaises(encode(v.password), isStrict)
        THEN InternalErrorResponse
        ELSE NoResponse

\* did create_user get as far as calling hash_password
ReachesHash(data) ==
    LET v == validate_input(data)
    IN  /\ v.exc = "none"
        /\ validate_username(v.username)[1]
        /\ validate_password(v.password)[1]

\* the request arrives; validate_input, validate_username, validate_password
\* and hash_password run. Hashing takes longer than a tick of the clock.
create_user_begin(p, data) ==
    /\ Idle(p)
    /\ nreq < MaxRequests
    /\ nreq' = nreq + 1
    /\ req' = [req EXCEPT ![p] = Request("register", data)]
    /\ nsalt' = IF ReachesHash(data) THEN nsalt + 1 ELSE nsalt
    /\ LET r == create_user_checks(data, strict)
           v == validate_input(data)
       IN  IF r # NoResponse
           THEN /\ Finish(p, r)
                /\ loc' = [loc EXCEPT ![p] =
                        Locals(v.username, v.password, NoHash, <<>>, 0,
                               Len(users), 0)]
                /\ UNCHANGED clock
           ELSE /\ pc' = [pc EXCEPT ![p] = "select"]
                /\ resp' = [resp EXCEPT ![p] = NoResponse]
                /\ loc' = [loc EXCEPT ![p] =
                        Locals(v.username, v.password,
                               hash_password(v.password, nsalt + 1),
                               <<>>, 0, Len(users), 0)]
                /\ clock' = clock + 1
    /\ UNCHANGED <<users, seq, writer, pending, strict, registered, arg, ret>>

\* SELECT id FROM users WHERE username = ?; then the arguments of the INSERT
\* are evaluated, datetime.utcnow() among them
create_user_select(p) ==
    /\ pc[p] = "select"
    /\ req[p].op = "register"
    /\ IF SelectByUsername(loc[p].username) # NoRow
       THEN /\ Finish(p, ErrorResponse(400, <<"Username already exists">>))
            /\ loc' = [loc EXCEPT ![p].queries = 1]
       ELSE /\ pc' = [pc EXCEPT ![p] = "insert"]
            /\ loc' = [loc EXCEPT ![p].queries = 1,
                                  ![p].created_at = isoformat(clock)]
            /\ UNCHANGED resp
    /\ UNCHANGED <<users, seq, writer, pending, clock, nsalt, strict, req, nreq,
                   registered, arg, ret>>

\* INSERT INTO users: the connection takes the write lock and the UNIQUE
\* constraint is checked; sqlite3.IntegrityError is a sqlite3.Error, which
\* get_db_connection rolls back and re-raises as DatabaseError
create_user_insert(p) ==
    /\ pc[p] = "insert"
    /\ writer = 0
    /\ IF UniqueOk(loc[p].username)
       THEN /\ writer' = p
            /\ pending' = Row(NextId, loc[p].username, loc[p].password_hash,
                              loc[p].created_at)
            /\ pc' = [pc EXCEPT ![p] = "commit"]
            /\ loc' = [loc EXCEPT ![p].queries = 2, ![p].user_id = NextId]
            /\ UNCHANGED resp
       ELSE /\ Finish(p, ErrorResponse(500, <<"User creation failed">>))
            /\ loc' = [loc EXCEPT ![p].queries = 2]
            /\ UNCHANGED <<writer, pending>>
    /\ UNCHANGED <<users, seq, clock, nsalt, strict, req, nreq, registered,
                   arg, ret>>

\* INSERT while another connection holds the write lock and keeps it past
\* the busy timeout: sqlite3.OperationalError("database is locked")
create_user_locked(p) ==
    /\ pc[p] = "insert"
    /\ writer # 0
    /\ Finish(p, ErrorResponse(500, <<"User creation failed">>))
    /\ loc' = [loc EXCEPT ![p].queries = 2]
    /\ UNCHANGED <<users, seq, writer, pending, clock, nsalt, strict, req, nreq,
                   registered, arg, ret>>

\* a commit that writes the row over the last one of the table
commit_overwrite(row) ==
    IF users = <<>> THEN <<row>> ELSE [users EXCEPT ![Len(users)] = row]

\* the table after conn.commit(): the inserted row is added to it
commit(row) == Append(users, row)

\* conn.commit(), and the 201 response
create_user_commit(p) ==
    /\ pc[p] = "commit"
    /\ writer = p
    /\ users' = commit(pending)
    /\ seq' = pending.id
    /\ writer' = 0
    /\ pending' = NoRow
    /\ registered' = Append(registered,
            [password |-> loc[p].password, start |-> loc[p].start,
             user_id |-> loc[p].user_id, username |-> loc[p].username])
    /\ loc' = [loc EXCEPT ![p].queries = 3]
    /\ Finish(p, Response(201, <<>>, "User created successfully",
                          loc[p].user_id, loc[p].username, <<>>))
    /\ UNCHANGED <<clock, nsalt, strict, req, nreq, arg, ret>>

-----------------------------------------------------------------------------
(* login: POST /login *)

\* what login returns before it opens a connection
login_checks(data) ==
    LET v == validate_input(data)
    IN  IF v.exc = "BadRequest" THEN BadRequestResponse(v.msg)
        ELSE IF v.exc # "none" THEN InternalErrorResponse
        ELSE NoResponse

login_begin(p, data) ==
    /\ Idle(p)
    /\ nreq < MaxRequests
    /\ nreq' = nreq + 1
    /\ req' = [req EXCEPT ![p] = Request("login", data)]
    /\ LET r == login_checks(data)
           v == validate_input(data)
       IN  /\ loc' = [loc EXCEPT ![p] =
                   Locals(v.username, v.password, NoHash, <<>>, 0, Len(users), 0)]
           /\ IF r # NoResponse
              THEN Finish(p, r)
              ELSE /\ pc' = [pc EXCEPT ![p] = "select"]
                   /\ resp' = [resp EXCEPT ![p] = NoResponse]
    /\ UNCHANGED <<users, seq, writer, pending, clock, nsalt, strict, registered, arg, ret>>

\* `user and verify_password(password, user["password_hash"])`, and the
\* response: checkpw is called only when the row was found
login_result(user, password, isStrict) ==
    IF user = NoRow
    THEN ErrorResponse(401, <<"Invalid credentials">>)
    ELSE IF verify_password_raises(password, user.password_hash, isStrict)
    THEN InternalErrorResponse
    ELSE IF verify_password(password, user.password_hash)
    THEN Response(200, <<>>, "Login successful", user.id, user.username, <<>>)
    ELSE ErrorResponse(401, <<"Invalid credentials">>)

\* SELECT id, username, password_hash FROM users WHERE username = ?
login_select(p) ==
    /\ pc[p] = "select"
    /\ req[p].op = "login"
    /\ loc' = [loc EXCEPT ![p].queries = 1]
    /\ Finish(p, login_result(SelectByUsername(loc[p].username), loc[p].password, strict))
    /\ UNCHANGED <<users, seq, writer, pending, clock, nsalt, strict, req, nreq,
                   registered, arg, ret>>

-----------------------------------------------------------------------------
(* get_users: GET /users *)

get_users(p) ==
    /\ Idle(p)
    /\ nreq < MaxRequests
    /\ nreq' = nreq + 1
    /\ req' = [req EXCEPT ![p] = Request("list", NoData)]
    /\ loc' = [loc EXCEPT ![p] = NoLocals(Len(users), 1)]
    /\ \E rows \in SelectAllOrdered :
         Finish(p, Response(200, <<>>, "", 0, <<>>,
                            [i \in 1..Len(rows) |-> UserView(rows[i])]))
    /\ UNCHANGED <<users, seq, writer, pending, clock, nsalt, strict, registered, arg, ret>>

-----------------------------------------------------------------------------
(* The service *)

UBob == <<"b", "o", "b">>
UBobCap == <<"B", "o", "b">>
UBobPadded == <<" ">> \o UBob \o <<"\t">>
UBad == <<"b", "@">>
PwdA == <<"P", "a", "s", "s", "w", "0", "r", "d">>
PwdAPadded == PwdA \o <<"\n">>
PwdWeak == <<"w", "e", "a", "k">>
\* 72 characters, and the same with one more
Pwd72 == <<"A", "1">> \o Rep("a", BcryptMaxBytes - 2)
Pwd73 == Pwd72 \o <<"x">>

\* the bodies the clients post to /users
RegisterPayloads ==
    {Object(Str(UBobPadded), Str(PwdAPadded)),
     Object(Str(UBob), Str(Pwd72)), Object(Str(UBob), Str(Pwd73)),
     Object(Str(UBobCap), Str(PwdA)),
     Object(Str(UBob), Str(PwdWeak)), Object(Str(UBad), Str(PwdWeak)),
     Object(Str(UBad), Absent), Object(Str(UBob), Num(7)), Array(Elem, Elem)}

\* the bodies the clients post to /login
LoginPayloads ==
    {Object(Str(UBobPadded), Str(PwdAPadded)),
     Object(Str(UBob), Str(Pwd72)), Object(Str(UBob), Str(Pwd73)),
     Object(Str(UBobCap), Str(PwdA)), Array(Elem, Elem)}

Init ==
    /\ users = <<>>
    /\ seq = 0
    /\ writer = 0
    /\ pending = NoRow
    /\ clock = 999998     \* two microseconds before the second turns
    /\ nsalt = 0
    /\ strict \in BOOLEAN
    /\ pc = [p \in Procs |-> "idle"]
    /\ req = [p \in Procs |-> NoRequest]
    /\ loc = [p \in Procs |-> NoLocals(0, 0)]
    /\ resp = [p \in Procs |-> NoResponse]
    /\ nreq = 0
    /\ registered = <<>>
    /\ arg = <<>>
    /\ ret = NoResult

Next ==
    \E p \in Procs :
        \/ \E data \in RegisterPayloads : create_user_begin(p, data)
        \/ create_user_select(p)
        \/ create_user_insert(p)
        \/ create_user_locked(p)
        \/ create_user_commit(p)
        \/ \E data \in LoginPayloads : login_begin(p, data)
        \/ login_select(p)
        \/ get_users(p)

Spec == Init /\ [][Next]_vars

-----------------------------------------------------------------------------
(* The validators called on their own *)

SampleChars == {"a", "z", "A", "Z", "0", "9", "_", "-", ".", "@", " ", EAcute}
PadChars == {"a", "7"}
\* lengths on both sides of 3, 8, 50 and 128
PadLens == (0..8) \cup (46..51) \cup (124..129)

\* a few free characters, then one character repeated
SampleStrings ==
    {pre \o Rep(c, n) :
        pre \in UNION {[1..k -> SampleChars] : k \in 0..MaxPrefix},
        c \in PadChars, n \in PadLens}

InitValidator ==
    /\ arg \in SampleStrings
    /\ ret = NoResult
    /\ users = <<>>
    /\ seq = 0
    /\ writer = 0
    /\ pending = NoRow
    /\ clock = 999998     \* two microseconds before the second turns
    /\ nsalt = 0
    /\ strict = FALSE
    /\ pc = [p \in Procs |-> "idle"]
    /\ req = [p \in Procs |-> NoRequest]
    /\ loc = [p \in Procs |-> NoLocals(0, 0)]
    /\ resp = [p \in Procs |-> NoResponse]
    /\ nreq = 0
    /\ registered = <<>>

call_validate_username ==
    /\ ret' = [fn |-> "validate_username", valid |-> validate_username(arg)[1],
               reason |-> validate_username(arg)[2]]
    /\ UNCHANGED <<users, seq, writer, pending, clock, nsalt, strict, pc, req,
                   loc, resp, nreq, registered, arg>>

call_validate_password ==
    /\ ret' = [fn |-> "validate_password", valid |-> validate_password(arg)[1],
               reason |-> validate_password(arg)[2]]
    /\ UNCHANGED <<users, seq, writer, pending, clock, nsalt, strict, pc, req,
                   loc, resp, nreq, registered, arg>>

NextValidator == call_validate_username \/ call_validate_password

SpecValidator == InitValidator /\ [][NextValidator]_vars

-----------------------------------------------------------------------------
(* verify_password called on its own, and login against a users.db that
   already holds a row: init_db creates the table only IF NOT EXISTS *)

SamplePasswords == {PwdA, PwdAPadded, PwdWeak, Pwd72, Pwd73}

\* hashes hash_password returned
ProducedHashes == {hash_password(pw, salt) : pw \in SamplePasswords, salt \in 1..2}

\* bytes hash_password never returns: nothing, a password in clear, and a
\* hash cut off after its salt
MalformedHashes ==
    {[salt |-> 0, digest |-> <<>>], [salt |-> 0, digest |-> encode(PwdA)],
     [salt |-> 1, digest |-> <<>>]}

InitVerify ==
    /\ arg \in [password : SamplePasswords,
                password_hash : ProducedHashes \cup MalformedHashes]
    /\ ret = NoResult
    /\ users = <<Row(1, UBob, arg.password_hash, isoformat(0))>>
    /\ seq = 1
    /\ writer = 0
    /\ pending = NoRow
    /\ clock = 999998     \* two microseconds before the second turns
    /\ nsalt = 0
    /\ strict \in BOOLEAN
    /\ pc = [p \in Procs |-> "idle"]
    /\ req = [p \in Procs |-> NoRequest]
    /\ loc = [p \in Procs |-> NoLocals(0, 0)]
    /\ resp = [p \in Procs |-> NoResponse]
    /\ nreq = 0
    /\ registered = <<>>

call_verify_password ==
    /\ ret' = IF verify_password_raises(arg.password, arg.password_hash, strict)
              THEN [fn |-> "verify_password", valid |-> FALSE,
                    reason |-> "ValueError"]
              ELSE [fn |-> "verify_password",
                    valid |-> verify_password(arg.password, arg.password_hash),
                    reason |-> ""]
    /\ UNCHANGED <<users, seq, writer, pending, clock, nsalt, strict, pc, req,
                   loc, resp, nreq, registered, arg>>

NextVerify ==
    \/ call_verify_password
    \/ \E p \in Procs :
         \/ login_begin(p, Object(Str(UBob), Str(arg.password)))
         \/ login_select(p)

SpecVerify == InitVerify /\ [][NextVerify]_vars

-----------------------------------------------------------------------------
(* Properties of the validators *)

Letters == Lower \cup Upper

UsernameCharsOk(s) ==
    \A i \in 1..Len(s) : s[i] \in Letters \cup Digit \cup {"_", "-", "."}

\* C7: validate_username accepts exactly the strings of 3 to 50 characters
\* drawn from letters, digits, '_', '-' and '.', and names the first reason
\* that applies of too short, too long, invalid characters
C7_UsernameRule ==
    ret.fn = "validate_username" =>
        /\ ret.valid <=> (Len(arg) >= 3 /\ Len(arg) <= 50 /\ UsernameCharsOk(arg))
        /\ Len(arg) < 3 =>
             ret.reason = "Username must be at least 3 characters long"
        /\ Len(arg) > 50 =>
             ret.reason = "Username must be less than 50 characters"
        /\ (Len(arg) >= 3 /\ Len(arg) <= 50 /\ ~UsernameCharsOk(arg)) =>
             ret.reason = "Username contains invalid characters"

\* a string over 50 characters with a forbidden character was reported too long
C7_Witness ==
    /\ ret.fn = "validate_username"
    /\ Len(arg) > 50
    /\ ~UsernameCharsOk(arg)
    /\ ret = [fn |-> "validate_username", valid |-> FALSE,
              reason |-> "Username must be less than 50 characters"]

HasUpper(s) == \E i \in 1..Len(s) : s[i] \in Upper \cup {EAcute}
HasLower(s) == \E i \in 1..Len(s) : s[i] \in Lower
HasDigit(s) == \E i \in 1..Len(s) : s[i] \in Digit

\* C8: validate_password accepts exactly the strings of 8 to 128 characters
\* holding an uppercase letter, a lowercase letter and a digit; the length is
\* tested first, and a missing class gets the one combined message
C8_PasswordRule ==
    ret.fn = "validate_password" =>
        /\ ret.valid <=> (/\ Len(arg) >= 8 /\ Len(arg) <= 128
                          /\ HasUpper(arg) /\ HasLower(arg) /\ HasDigit(arg))
        /\ Len(arg) < 8 =>
             ret.reason = "Password must be at least 8 characters long"
        /\ Len(arg) > 128 => ret.reason = "Password too long"
        /\ (/\ Len(arg) >= 8 /\ Len(arg) <= 128
            /\ ~(HasUpper(arg) /\ HasLower(arg) /\ HasDigit(arg))) =>
             ret.reason = "Password must contain uppercase, lowercase, and numeric characters"

\* a password of valid length with two of the three classes was rejected
\* with the combined message
C8_Witness ==
    /\ ret.fn = "validate_password"
    /\ Len(arg) >= 8 /\ Len(arg) <= 128
    /\ HasUpper(arg) /\ HasLower(arg) /\ ~HasDigit(arg)
    /\ ret = [fn |-> "validate_password", valid |-> FALSE,
              reason |-> "Password must contain uppercase, lowercase, and numeric characters"]

-----------------------------------------------------------------------------
(* Properties of the service *)

Done(p, op) == pc[p] = "done" /\ req[p].op = op

Conflict == ErrorResponse(400, <<"Username already exists">>)
InvalidCredentials == ErrorResponse(401, <<"Invalid credentials">>)

\* the rows committed before the request of p began (rows are only appended)
StoredAtStart(p, username) ==
    {i \in 1..loc[p].start : users[i].username = username}

\* s without its leading and trailing whitespace
Trimmed(s) ==
    LET keep == {i \in 1..Len(s) : s[i] \notin Whitespace}
    IN  IF keep = {} THEN <<>>
        ELSE LET lo == CHOOSE i \in keep : \A j \in keep : i <= j
                 hi == CHOOSE i \in keep : \A j \in (i + 1)..Len(s) : j \notin keep
             IN  [i \in 1..(hi - lo + 1) |-> s[lo + i - 1]]

\* a field the generic validator is to reject
DefectiveField(v) ==
    \/ v.tag # "str"
    \/ v.s = <<>>
    \/ Trimmed(v.s) = <<>>
    \/ Len(v.s) > 255

\* a payload the generic validator is to reject: no payload, or a required
\* field missing, empty, not a string, blank or over 255 characters
Defective(data) ==
    \/ data.kind # "object"
    \/ DefectiveField(data.username)
    \/ DefectiveField(data.password)

UsernameOk(s) == Len(s) >= 3 /\ Len(s) <= 50 /\ UsernameCharsOk(s)
PasswordOk(s) ==
    /\ Len(s) >= 8 /\ Len(s) <= 128
    /\ HasUpper(s) /\ HasLower(s) /\ HasDigit(s)

\* the request passes generic validation, validate_username and
\* validate_password
ValidRegistration(data) ==
    /\ ~Defective(data)
    /\ UsernameOk(Trimmed(data.username.s))
    /\ PasswordOk(Trimmed(data.password.s))

\* the installed bcrypt refuses to hash the password
HashRefused(data) ==
    strict /\ Len(encode(Trimmed(data.password.s))) > BcryptMaxBytes

\* C1: of two registrations of one username that both began on the empty
\* store and both ran their SELECT, one succeeds and the other gets the
\* conflict error
C1_OneSuccessOthersConflict ==
    \A p, q \in Procs :
        (/\ p # q
         /\ Done(p, "register") /\ Done(q, "register")
         /\ ValidRegistration(req[p].data) /\ ValidRegistration(req[q].data)
         /\ loc[p].username = loc[q].username
         /\ loc[p].start = 0 /\ loc[q].start = 0
         /\ loc[p].queries > 0 /\ loc[q].queries > 0)
        => \/ resp[p].status = 201 /\ resp[q] = Conflict
           \/ resp[q].status = 201 /\ resp[p] = Conflict

\* C2: no two stored users share a username or an id
C2_UniqueUsers ==
    \A i, j \in 1..Len(users) :
        i # j => /\ users[i].username # users[j].username
                 /\ users[i].id # users[j].id

\* two users are stored, "bob" and "Bob", and an INSERT of a username
\* already stored was refused by the UNIQUE constraint
C2_Witness ==
    /\ Len(users) = 2
    /\ {users[1].username, users[2].username} = {UBob, UBobCap}
    /\ \E p \in Procs :
         /\ Done(p, "register")
         /\ loc[p].queries = 2
         /\ resp[p] = ErrorResponse(500, <<"User creation failed">>)

\* the password is not the one the stored hash was made of
Mismatch(password, password_hash) ==
    hashpw(encode(password), password_hash.salt) # password_hash

\* C3: a login with well-formed fields gets the same 401 "Invalid
\* credentials" whether the username is not stored or it is stored and the
\* password does not match its hash
C3_SameFailure ==
    \A p \in Procs :
        (Done(p, "login") /\ ~Defective(req[p].data)) =>
            /\ (\A i \in 1..Len(users) : users[i].username # loc[p].username)
                 => resp[p] = InvalidCredentials
            /\ \A i \in StoredAtStart(p, loc[p].username) :
                 Mismatch(loc[p].password, users[i].password_hash)
                 => resp[p] = InvalidCredentials

\* C4 as stated: a registration whose trimmed username was already stored
\* gets the conflict error whatever the password, and writes nothing
C4_ConflictWhateverPassword ==
    \A p \in Procs :
        (/\ Done(p, "register")
         /\ req[p].data.kind = "object"
         /\ req[p].data.username.tag = "str"
         /\ StoredAtStart(p, Trimmed(req[p].data.username.s)) # {})
        => resp[p] = Conflict /\ loc[p].queries <= 1

\* C4 as amended: it gets the conflict error, having run its SELECT and
\* nothing else, if the request passes generic validation and
\* validate_password and the password is hashed; otherwise it gets the error
\* of the failed check and never reaches the database
C4_ConflictForValidRequest ==
    \A p \in Procs :
        (/\ Done(p, "register")
         /\ req[p].data.kind = "object"
         /\ req[p].data.username.tag = "str"
         /\ StoredAtStart(p, Trimmed(req[p].data.username.s)) # {})
        => IF ValidRegistration(req[p].data) /\ ~HashRefused(req[p].data)
           THEN resp[p] = Conflict /\ loc[p].queries = 1
           ELSE resp[p] # Conflict /\ resp[p].status \in {400, 500}
                /\ loc[p].queries = 0

\* "bob" is stored and a registration of " bob<TAB>" was answered with the
\* conflict error
C4_Witness ==
    \E p \in Procs :
        /\ Done(p, "register")
        /\ req[p].data = Object(Str(UBobPadded), Str(PwdAPadded))
        /\ StoredAtStart(p, UBob) # {}
        /\ resp[p] = Conflict

\* C5: a login that begins after a registration succeeded succeeds with the
\* registered id and username if it gives the registered password, and gets
\* 401 "Invalid credentials" if it gives another
C5_LoginAfterRegister ==
    \A p \in Procs :
        (Done(p, "login") /\ ~Defective(req[p].data)) =>
            \A i \in StoredAtStart(p, loc[p].username) :
                IF registered[i].password = loc[p].password
                THEN resp[p] = Response(200, <<>>, "Login successful",
                                        registered[i].user_id,
                                        registered[i].username, <<>>)
                ELSE resp[p] = InvalidCredentials

UsernameReasons ==
    {"Username must be at least 3 characters long",
     "Username must be less than 50 characters",
     "Username contains invalid characters"}
PasswordReasons ==
    {"Password must be at least 8 characters long", "Password too long",
     "Password must contain uppercase, lowercase, and numeric characters"}

\* the response reports a failure of the generic validator
GenericFailure(r) ==
    \/ r.status = 400 /\ r.error # <<>> /\ r.error[1] = "400 Bad Request"
    \/ r = InternalErrorResponse

\* C6: create_user answers with the first check that fails of generic
\* validation, validate_username, validate_password, hashing; a request that
\* fails one of them runs no SQL statement and is never told of a conflict,
\* and a request that passes them all goes on to the database
C6_FirstFailureWins ==
    \A p \in Procs :
        Done(p, "register") =>
            LET d == req[p].data
                u == Trimmed(d.username.s)
                pw == Trimmed(d.password.s)
            IN  IF Defective(d)
                THEN GenericFailure(resp[p]) /\ loc[p].queries = 0
                ELSE IF ~UsernameOk(u)
                THEN /\ resp[p].status = 400 /\ Len(resp[p].error) = 1
                     /\ resp[p].error[1] \in UsernameReasons
                     /\ loc[p].queries = 0
                ELSE IF ~PasswordOk(pw)
                THEN /\ resp[p].status = 400 /\ Len(resp[p].error) = 1
                     /\ resp[p].error[1] \in PasswordReasons
                     /\ loc[p].queries = 0
                ELSE IF HashRefused(d)
                THEN resp[p] = InternalErrorResponse /\ loc[p].queries = 0
                ELSE loc[p].queries >= 1

\* with "bob" stored, a registration of "b@" with the password "weak" was
\* answered with the username's reason, and one of "bob" with the password
\* "weak" with the password's reason and not with the conflict error
C6_Witness ==
    \E p, q \in Procs :
        /\ Done(p, "register") /\ Done(q, "register")
        /\ req[p].data = Object(Str(UBad), Str(PwdWeak))
        /\ resp[p] = ErrorResponse(400,
                        <<"Username must be at least 3 characters long">>)
        /\ req[q].data = Object(Str(UBob), Str(PwdWeak))
        /\ StoredAtStart(q, UBob) # {}
        /\ resp[q] = ErrorResponse(400,
                        <<"Password must be at least 8 characters long">>)

\* C9: create_user and login answer 400 to a payload the generic validator
\* is to reject, and otherwise work on the trimmed fields: they are the
\* local username and password, the stored username and the hashed password
C9_GenericValidation ==
    \A p \in Procs :
        (pc[p] = "done" /\ req[p].op \in {"register", "login"}) =>
            LET d == req[p].data
            IN  IF Defective(d)
                THEN resp[p].status = 400 /\ loc[p].queries = 0
                ELSE /\ loc[p].username = Trimmed(d.username.s)
                     /\ loc[p].password = Trimmed(d.password.s)
                     /\ resp[p].status = 201 =>
                          \E i \in 1..Len(users) :
                              /\ users[i].id = resp[p].user_id
                              /\ users[i].username = Trimmed(d.username.s)
                              /\ ~Mismatch(Trimmed(d.password.s),
                                           users[i].password_hash)

\* the place of the stored user i in a listing
Place(listing, i) ==
    CHOOSE n \in 1..Len(listing) : listing[n].id = users[i].id

\* C10 as amended: get_users returns every stored user once, as id,
\* username and created_at only, in descending order of created_at; a user
\* whose registration began after another's had succeeded comes before it
C10_ListByCreatedAt ==
    \A p \in Procs :
        Done(p, "list") =>
            LET listing == resp[p].users
                k == loc[p].start
            IN  /\ resp[p].status = 200
                /\ Len(listing) = k
                /\ \A i \in 1..k :
                     \E n \in 1..k :
                         listing[n] = [id |-> users[i].id,
                                       username |-> users[i].username,
                                       created_at |-> users[i].created_at]
                /\ \A m, n \in 1..k :
                     m < n => ~TextLess(listing[m].created_at,
                                        listing[n].created_at)
                /\ \A i, j \in 1..k :
                     (i < j /\ registered[j].start >= i)
                     => Place(listing, j) < Place(listing, i)

\* C10 as stated: the listing is the stored users in reverse order of
\* registration
C10_ReverseOfRegistration ==
    \A p \in Procs :
        Done(p, "list") =>
            /\ Len(resp[p].users) = loc[p].start
            /\ \A n \in 1..Len(resp[p].users) :
                 resp[p].users[n].id = users[loc[p].start + 1 - n].id

\* two users registered one after the other were listed, the later first
C10_Witness ==
    \E p \in Procs :
        /\ Done(p, "list")
        /\ Len(resp[p].users) = 2
        /\ registered[2].start >= 1
        /\ resp[p].users[1].id = users[2].id
        /\ resp[p].users[2].id = users[1].id

\* the request passes every validator and its username was on no stored row
\* when it began
FreshValidRegistration(p) ==
    /\ Done(p, "register")
    /\ ValidRegistration(req[p].data)
    /\ StoredAtStart(p, Trimmed(req[p].data.username.s)) = {}

\* C11: a registration with a valid password and a valid username that was
\* not yet used succeeds with 201, and its result carries the id of the row
\* stored for it and the trimmed username, and nothing of the password
C11_RegisterSucceeds ==
    \A p \in Procs :
        FreshValidRegistration(p) =>
            \E i \in 1..Len(users) :
                /\ users[i].username = Trimmed(req[p].data.username.s)
                /\ resp[p] = Response(201, <<>>, "User created successfully",
                                      users[i].id, users[i].username, <<>>)

-----------------------------------------------------------------------------
(* Properties of verify_password *)

\* C12: verify_password never raises: whatever the password and the hash it
\* returns a boolean, FALSE for a malformed hash, and so a login against a
\* user whose stored hash is malformed gets 401 "Invalid credentials"
C12_VerifyNeverRaises ==
    /\ ret.fn = "verify_password" =>
          /\ ret.reason = ""
          /\ ret.valid \in BOOLEAN
          /\ arg.password_hash \in MalformedHashes => ~ret.valid
    /\ \A p \in Procs :
          (/\ Done(p, "login")
           /\ users[1].password_hash \in MalformedHashes)
          => resp[p] = InvalidCredentials

-----------------------------------------------------------------------------
(* Frame of the users table *)

\* a step in which the request of p ends in success and adds one row, the
\* one its response names, after the rows already stored
AddsOneUser(p) ==
    /\ req[p].op = "register"
    /\ pc[p] # "done" /\ pc'[p] = "done"
    /\ resp'[p].status = 201
    /\ \A q \in Procs \ {p} : pc'[q] = pc[q] /\ resp'[q] = resp[q]
    /\ Len(users') = Len(users) + 1
    /\ SubSeq(users', 1, Len(users)) = users
    /\ users'[Len(users')].id = resp'[p].user_id
    /\ users'[Len(users')].username = resp'[p].username

\* C13: the stored users change only in the step that ends a registration
\* in success, which adds exactly one user and leaves every stored user as
\* it was; every step of a login, of a listing and of a registration that
\* ends in an error leaves the stored users as they are
C13_StoreOnlyGrows ==
    [][users' # users => \E p \in Procs : AddsOneUser(p)]_vars

\* "bob" was registered, a login ran against the one stored user, a second
\* user was registered after it, and "bob" is stored as before
C13_Witness ==
    /\ Len(users) = 2
    /\ users[1].username = UBob
    /\ \E p \in Procs : Done(p, "login") /\ loc[p].start = 1 /\ loc[p].queries = 1

====
